---- MODULE Spec2Model ----
(***************************************************************************)
(* LESS Variable Extractor (LESSVariableExtractor.py).                     *)
(*                                                                         *)
(* A text is a sequence of one-character strings.  The buffer of the view  *)
(* is one text with "\n" between its lines; a region is a pair of points   *)
(* [a, b], a point being the number of characters before it.               *)
(***************************************************************************)
EXTENDS Integers, Sequences, FiniteSets

(***************************************************************************)
(* Bounds of the inputs.                                                   *)
(***************************************************************************)
\* longest line, in chunks, of the exhaustively enumerated one-line buffers
MaxChunks == 4
\* longest value, in chunks, of the enumerated "property:value;" lines
MaxValue == 4
\* most lines of a multi-line buffer
MaxLines == 2

(***************************************************************************)
(* Texts: Python's str operations used by the command.                     *)
(***************************************************************************)
\* the characters the pattern's whitespace class and str.strip() take as whitespace
WhiteSpace == {" ", "\t", "\n"}

Max(S) == CHOOSE x \in S : \A y \in S : y <= x

\* reversed(seq)
reversed(s) == [i \in 1..Len(s) |-> s[Len(s) + 1 - i]]

RECURSIVE Flatten(_)
\* concatenation of a sequence of texts
Flatten(ss) == IF ss = <<>> THEN <<>> ELSE Head(ss) \o Flatten(Tail(ss))

Digits == <<"0", "1", "2", "3", "4", "5", "6", "7", "8", "9">>

RECURSIVE str(_)
\* str(n) of a natural number: its decimal digits
str(n) == IF n < 10 THEN <<Digits[n + 1]>>
          ELSE str(n \div 10) \o <<Digits[(n % 10) + 1]>>

Min(S) == CHOOSE x \in S : \A y \in S : x <= y

\* the first index >= from of character c in s, or Len(s) + 1
IndexFrom(s, c, from) == Min({i \in from..Len(s) : s[i] = c} \cup {Len(s) + 1})

RECURSIVE split(_, _)
\* s.split(sep) for a one-character separator: every occurrence separates,
\* so consecutive separators give empty items
split(s, sep) ==
    LET i == IndexFrom(s, sep, 1)
    IN  IF i > Len(s) THEN <<s>>
        ELSE <<SubSeq(s, 1, i - 1)>> \o split(SubSeq(s, i + 1, Len(s)), sep)

\* s.strip(): leading and trailing whitespace removed
strip(s) ==
    IF \A i \in 1..Len(s) : s[i] \in WhiteSpace THEN <<>>
    ELSE LET lo == CHOOSE i \in 1..Len(s) :
                       s[i] \notin WhiteSpace /\ \A j \in 1..(i - 1) : s[j] \in WhiteSpace
             hi == CHOOSE i \in 1..Len(s) :
                       s[i] \notin WhiteSpace /\ \A j \in (i + 1)..Len(s) : s[j] \in WhiteSpace
         IN  SubSeq(s, lo, hi)

RECURSIVE join(_, _)
\* sep.join(items)
join(sep, items) ==
    IF items = <<>> THEN <<>>
    ELSE IF Len(items) = 1 THEN items[1]
    ELSE items[1] \o sep \o join(sep, Tail(items))

\* " " in s
Contains(s, c) == \E i \in 1..Len(s) : s[i] = c

\* re.search of the declaration pattern (source line 101):
\*     ^ ws* any+ ws* ":" ws* nonat+ ws* ";" any* $
\* with seven groups: ws* is a run of whitespace, any+ a non-empty run of
\* characters other than newline, nonat+ a non-empty run of characters other
\* than "@".  A candidate match is given by the lengths n1..n6 of groups
\* 1..6; group 7 is the rest of the text.  All quantifiers are greedy, so the
\* match the backtracking engine returns is the candidate that is largest in
\* n1, then in n2, ... (each group as long as the rest of the pattern allows).
\* s[lo..hi] consists of whitespace
AllSpace(s, lo, hi) == \A i \in lo..hi : s[i] \in WhiteSpace
\* s[lo..hi] has no "@"
NoAt(s, lo, hi) == \A i \in lo..hi : s[i] # "@"
\* s[lo..hi] has no newline
AllDot(s, lo, hi) == \A i \in lo..hi : s[i] # "\n"

\* A table gives a truth value for every point 0..Len(s) of a text, as a
\* sequence; At(t, p) is the value at point p
At(t, p) == t[p + 1]

\* Whether the pattern from group k on matches the text from point p on, up
\* to the end of the text, given the same for group k + 1 (next, a table) and
\* for group k from point p + 1 on (after).  A group X* followed by R matches
\* at p if R does, or if the next character is in X and the group followed by
\* R matches after it; a group X+ followed by R matches at p if the next
\* character is in X and, after it, R or the group followed by R matches.
Step(s, k, next, p, after) ==
    CASE \* group 7 (any*) and the end of the text
         k = 7 -> p = Len(s) \/ (s[p + 1] # "\n" /\ after)
         \* group 6 (ws*), ";", then the rest
      [] k = 6 -> /\ p < Len(s)
                  /\ \/ s[p + 1] = ";" /\ At(next, p + 1)
                     \/ s[p + 1] \in WhiteSpace /\ after
         \* group 5 (nonat+), then the rest
      [] k = 5 -> p < Len(s) /\ s[p + 1] # "@" /\ (At(next, p + 1) \/ after)
         \* group 4 (ws*), then the rest
      [] k = 4 -> At(next, p) \/ (p < Len(s) /\ s[p + 1] \in WhiteSpace /\ after)
         \* group 3 (ws*), ":", then the rest
      [] k = 3 -> /\ p < Len(s)
                  /\ \/ s[p + 1] = ":" /\ At(next, p + 1)
                     \/ s[p + 1] \in WhiteSpace /\ after
         \* group 2 (any+), then the rest
      [] k = 2 -> p < Len(s) /\ s[p + 1] # "\n" /\ (At(next, p + 1) \/ after)
         \* group 1 (ws*), then the rest
      [] k = 1 -> At(next, p) \/ (p < Len(s) /\ s[p + 1] \in WhiteSpace /\ after)

RECURSIVE Scan(_, _, _, _, _, _)
RECURSIVE ScanLeft(_, _, _, _, _, _)
\* the table of Step for group k at the points lo..hi, given its value at
\* point hi + 1 (after): the right half of the points first, then the left
\* half, which starts from the first value of the right half
Scan(s, k, next, lo, hi, after) ==
    IF lo = hi THEN <<Step(s, k, next, lo, after)>>
    ELSE ScanLeft(s, k, next, lo, (lo + hi) \div 2,
                  Scan(s, k, next, ((lo + hi) \div 2) + 1, hi, after))
ScanLeft(s, k, next, lo, mid, right) ==
    IF right = <<>> THEN <<>> ELSE Scan(s, k, next, lo, mid, right[1]) \o right

RECURSIVE Tables(_, _, _)
RECURSIVE TablesWith(_, _, _, _)
\* the tables of groups 1..7, as a sequence (acc: those of groups k + 1..7);
\* each table is complete before the table of the group before it is begun
Tables(s, k, acc) ==
    IF k = 0 THEN acc
    ELSE IF acc = <<>> THEN TablesWith(s, k, Scan(s, k, <<>>, 0, Len(s), FALSE), acc)
    ELSE TablesWith(s, k, Scan(s, k, acc[1], 0, Len(s), FALSE), acc)
TablesWith(s, k, table, acc) ==
    IF table = <<>> THEN <<>> ELSE Tables(s, k - 1, <<table>> \o acc)
Rest(s) == Tables(s, 7, <<>>)

\* the point at which a greedy group that starts at point p ends: the largest
\* point that the group reaches and from which the rest of the pattern matches
\* a group of whitespace
EndSpace(s, p, rest) == Max({e \in p..Len(s) : At(rest, e) /\ AllSpace(s, p + 1, e)})
\* a group of whitespace that a separator character follows
EndSpaceSep(s, p, sep, rest) ==
    Max({e \in p..(Len(s) - 1) :
            s[e + 1] = sep /\ At(rest, e + 1) /\ AllSpace(s, p + 1, e)})
\* a non-empty group of characters other than newline
EndDot(s, p, rest) == Max({e \in (p + 1)..Len(s) : At(rest, e) /\ AllDot(s, p + 1, e)})
\* a non-empty group of characters other than "@"
EndNoAt(s, p, rest) == Max({e \in (p + 1)..Len(s) : At(rest, e) /\ NoAt(s, p + 1, e)})

\* the match object: match.group(1..7), given the points e1..e6 at which
\* groups 1..6 end
GroupsAt(s, e1, e2, e3, e4, e5, e6) ==
    [ok                    |-> TRUE,
     space_before_property |-> SubSeq(s, 1, e1),
     css_property          |-> SubSeq(s, e1 + 1, e2),
     space_after_property  |-> SubSeq(s, e2 + 1, e3),
     space_before_value    |-> SubSeq(s, e3 + 2, e4),
     css_value             |-> SubSeq(s, e4 + 1, e5),
     space_after_value     |-> SubSeq(s, e5 + 1, e6),
     inline_comments       |-> SubSeq(s, e6 + 2, Len(s))]

\* each group in turn takes all it can, given the groups before it (r: the
\* tables of the groups)
Groups6(s, r, e1, e2, e3, e4, e5) ==
    GroupsAt(s, e1, e2, e3, e4, e5, EndSpaceSep(s, e5, ";", r[7]))
Groups5(s, r, e1, e2, e3, e4) == Groups6(s, r, e1, e2, e3, e4, EndNoAt(s, e4, r[6]))
Groups4(s, r, e1, e2, e3) == Groups5(s, r, e1, e2, e3, EndSpace(s, e3 + 1, r[5]))
Groups3(s, r, e1, e2) == Groups4(s, r, e1, e2, EndSpaceSep(s, e2, ":", r[4]))
Groups2(s, r, e1) == Groups3(s, r, e1, EndDot(s, e1, r[3]))
Groups1(s, r) == Groups2(s, r, EndSpace(s, 0, r[2]))

\* what re.search returns when the pattern does not match: None
None == [ok |-> FALSE]

\* the match object if the pattern matches the text from its start, or None
Search(s, r) == IF At(r[1], 0) THEN Groups1(s, r) ELSE None

\* match = re.search(pattern, text)
re_search(s) == Search(s, Rest(s))

(***************************************************************************)
(* The body of the loop of extract_variables: what one matching line       *)
(* contributes.  m is the record of the match's groups.                    *)
(***************************************************************************)
\* important_text = '!important'
important_text == <<"!", "i", "m", "p", "o", "r", "t", "a", "n", "t">>

\* counter = counter + 1
next_counter(counter) == counter + 1

\* prefixed_name = prefix + '-' + 'lessvar' + str(counter) + '-' + css_property
prefixed_name(prefix, counter, css_property) ==
    prefix \o <<"-">> \o <<"l", "e", "s", "s", "v", "a", "r">> \o str(counter)
           \o <<"-">> \o css_property

\* if " " in css_value
is_shorthand(css_value) == Contains(css_value, " ")

\* important = shorthand[-1] == important_text, on shorthand = css_value.split(" ")
important(css_value) ==
    LET sh == split(css_value, " ") IN sh[Len(sh)] = important_text

\* shorthand after `if important: shorthand.pop()`
shorthand(css_value) ==
    LET sh == split(css_value, " ")
    IN  IF important(css_value) THEN SubSeq(sh, 1, Len(sh) - 1) ELSE sh

\* prop_name of the value with the given shorthand_counter
prop_name(prefix, counter, m, shorthand_counter) ==
    IF important(m.css_value) /\ Len(shorthand(m.css_value)) = 1
    THEN prefixed_name(prefix, counter, m.css_property)
    ELSE prefixed_name(prefix, counter, m.css_property)
            \o <<"-">> \o <<"l", "e", "s", "s", "v">> \o str(counter)
            \o <<"s", "v">> \o str(shorthand_counter)

\* shorthand_variables after the loop over shorthand
shorthand_variables(prefix, counter, m) ==
    LET sh == shorthand(m.css_value)
    IN  Flatten([i \in 1..Len(sh) |->
            prop_name(prefix, counter, m, i) \o <<":", " ">> \o sh[i] \o <<";", "\n">>])

\* shorthand_replacement after the loop over shorthand
shorthand_replacement(prefix, counter, m) ==
    LET sh == shorthand(m.css_value)
    IN  Flatten([i \in 1..Len(sh) |-> <<" ">> \o prop_name(prefix, counter, m, i)])

\* the text of variables.append(...) for the line
variables_entry(prefix, counter, m) ==
    IF is_shorthand(m.css_value)
    THEN strip(shorthand_variables(prefix, counter, m))
    ELSE prefixed_name(prefix, counter, m.css_property)
            \o <<":", " ">> \o m.css_value \o <<";">>

\* replacement of a shorthand value
shorthand_line(prefix, counter, m) ==
    m.space_before_property \o m.css_property \o m.space_after_property \o <<":">>
        \o m.space_before_value \o strip(shorthand_replacement(prefix, counter, m))
        \o (IF important(m.css_value) THEN <<" ">> \o important_text ELSE <<>>)
        \o m.space_after_value \o <<";">> \o m.inline_comments

\* simple_line as it would be with space_before_value left out
simple_line_unspaced(prefix, counter, m) ==
    m.space_before_property \o m.css_property \o m.space_after_property \o <<":">>
        \o prefixed_name(prefix, counter, m.css_property)
        \o m.space_after_value \o <<";">> \o m.inline_comments

\* replacement of a value without spaces
simple_line(prefix, counter, m) ==
    m.space_before_property \o m.css_property \o m.space_after_property \o <<":">>
        \o m.space_before_value \o prefixed_name(prefix, counter, m.css_property)
        \o m.space_after_value \o <<";">> \o m.inline_comments

\* replacement: the new text of the line
replacement(prefix, counter, m) ==
    IF is_shorthand(m.css_value) THEN shorthand_line(prefix, counter, m)
    ELSE simple_line(prefix, counter, m)

(***************************************************************************)
(* The view: its buffer and the operations of it the command uses.         *)
(***************************************************************************)
\* Region.empty()
empty(region) == region.a = region.b

\* view.substr(region): the text between the points of the region, a point
\* past the end of the buffer counting as its end
substr(buf, region) == SubSeq(buf, region.a + 1, Min({region.b, Len(buf)}))

\* the point at which the line containing point p starts
LineStart(buf, p) ==
    IF \E i \in 1..p : buf[i] = "\n" THEN Max({i \in 1..p : buf[i] = "\n"}) ELSE 0

\* the point at which the line containing point p ends
LineEnd(buf, p) == IndexFrom(buf, "\n", p + 1) - 1

\* view.line(region): the region grown to whole lines
view_line(buf, region) == [a |-> LineStart(buf, region.a), b |-> LineEnd(buf, region.b)]

RECURSIVE split_by_newlines(_, _)
\* view.split_by_newlines(region): the regions of the lines of a region
split_by_newlines(buf, region) ==
    LET e == LineEnd(buf, region.a)
    IN  IF e >= region.b THEN <<region>>
        ELSE <<[a |-> region.a, b |-> e]>>
                \o split_by_newlines(buf, [a |-> e + 1, b |-> region.b])

\* view.replace as it would be if the region took in the character after it
replace_past_end(buf, region, text) ==
    SubSeq(buf, 1, Min({region.a, Len(buf)})) \o text \o SubSeq(buf, region.b + 2, Len(buf))

\* view.replace(edit, region, text)
replace(buf, region, text) ==
    SubSeq(buf, 1, Min({region.a, Len(buf)})) \o text \o SubSeq(buf, region.b + 1, Len(buf))

\* view.insert(edit, point, text)
insert(buf, point, text) ==
    SubSeq(buf, 1, point) \o text \o SubSeq(buf, point + 1, Len(buf))

\* the selection follows the buffer: a region that lies after a change of the
\* text moves by the change of the length
moved(regions, from, delta) ==
    [i \in 1..Len(regions) |->
        [a |-> IF regions[i].a >= from THEN regions[i].a + delta ELSE regions[i].a,
         b |-> IF regions[i].b >= from THEN regions[i].b + delta ELSE regions[i].b]]

\* the order of the visits as it would be without reversed()
visit_order_forward(lines) == lines

\* `for line in reversed(lines)`: the order in which the lines are visited
visit_order(lines) == reversed(lines)

\* variables_output as it would be without reversed()
variables_output_unreversed(variables) == join(<<"\n">>, variables) \o <<"\n", "\n">>

\* variables_output = "\n".join(reversed(variables)) + '\n\n'
variables_output(variables) == join(<<"\n">>, reversed(variables)) \o <<"\n", "\n">>

(***************************************************************************)
(* State.                                                                  *)
(***************************************************************************)
VARIABLES
    buffer,     \* the text of the view
    sel,        \* view.sel(): the regions of the selection not yet visited by run
    prefix,     \* the prefix the command was run with
    pc,         \* "run": at the loop of run; "lines": in the loop of
                \* extract_variables; "done": run has returned
    lines,      \* extract_variables: the line regions of the region
    visited,    \* extract_variables: how many of them the loop has visited
    counter,    \* extract_variables: counter
    variables,  \* extract_variables: variables
    text,       \* extract_variables: the text view.substr(line) returned last
    match,      \* extract_variables: match, of the line visited last
    passes,     \* extract_variables: text and match of every pass of the loop so
                \* far, in the order of the passes
    edit,       \* the changes the command has made to the buffer, oldest first
    calls,      \* how many times the current run has called extract_variables
    snapshot,   \* the buffer as it was when `lines` was computed
    rerun       \* the command has been run a second time

vars == <<buffer, sel, prefix, pc, lines, visited, counter, variables, text,
          match, passes, edit, calls, snapshot, rerun>>

\* the counter as it would start if it were kept from one call to the next
initial_counter_kept == counter

\* counter = 0 at the start of extract_variables
initial_counter == 0

\* the point of the insertion as it would be at the start of the region
insert_point_of_region == lines[1].a

\* the point at which variables_output is inserted: view.insert(edit, 0, ...)
insert_point == 0

(***************************************************************************)
(* Inputs: the buffers, selections and prefixes the command is run on.     *)
(***************************************************************************)
\* all texts made of at most n of the given chunks
ChunkTexts(chunks, n) ==
    UNION {{Flatten(c) : c \in [1..m -> chunks]} : m \in 0..n}

\* every line of at most MaxChunks chunks
LineChunks == {<<" ">>, <<"\t">>, <<"a">>, <<":">>, <<";">>, <<"@">>}
ShortLines == ChunkTexts(LineChunks, MaxChunks)

\* declarations "property:value;" around every value of at most MaxValue chunks
ValueChunks == {<<" ">>, <<"a">>, <<"b">>, important_text}
Frames == {<< <<"a", ":">>, <<";">> >>,
           << <<"\t", "a", " ", ":", " ">>, <<";", " ", "a">> >>,
           << <<"a", ":", "b", ":">>, <<";">> >>}
ValueLines ==
    {f[1] \o v \o f[2] : f \in Frames, v \in ChunkTexts(ValueChunks, MaxValue)}

\* the lines multi-line buffers are made of: a simple value, a shorthand
\* value and a line that is no declaration
SimpleDecl == <<"a", ":", "a", ";">>
ShorthandDecl == <<"b", ":", "a", " ", "b", ";">>
NoDecl == <<"a", "}">>
Vocabulary == {SimpleDecl, ShorthandDecl, NoDecl}

\* a prefix that makes LESS variables, and one that does not start with "@"
VarPrefix == <<"@", "v">>
Prefixes == {VarPrefix, <<"v">>}

\* the example of the comment at source lines 233-234, and its prefix
ExampleLine ==
    <<" ", " ", " ", " ", "b", "o", "r", "d", "e", "r", " ", ":", " ", "1",
      "p", "x", " ", "s", "o", "l", "i", "d", " ", "b", "l", "a", "c", "k",
      " ", ";", " ", "/", "/", " ", "c", "o", "m", "m", "e", "n", "t", " ">>
ExamplePrefix ==
    <<"@", "p", "r", "e", "f", "i", "x">>

\* the region that covers the whole buffer
whole(buf) == [a |-> 0, b |-> Len(buf)]

\* the points a selection starts or ends at: the starts and ends of the lines
Points(buf) == {p \in 0..Len(buf) : LineStart(buf, p) = p \/ LineEnd(buf, p) = p}

Regions(buf) == {[a |-> p, b |-> q] : p \in Points(buf), q \in Points(buf)} \cap
                {r \in [a : 0..Len(buf), b : 0..Len(buf)] : r.a <= r.b}

\* selections of one or two regions, in buffer order, no two on one line
Selections(buf) ==
    {<<r>> : r \in Regions(buf)} \cup
    {<<r[1], r[2]>> : r \in
        {q \in Regions(buf) \X Regions(buf) :
            LineEnd(buf, q[1].b) < LineStart(buf, q[2].a)}}

\* the state in which run is entered
Entered(buf, selection, pre) ==
    /\ buffer = buf
    /\ sel = selection
    /\ prefix = pre
    /\ pc = "run"
    /\ lines = <<>>
    /\ visited = 0
    /\ counter = 0
    /\ variables = <<>>
    /\ text = <<>>
    /\ match = None
    /\ passes = <<>>
    /\ edit = <<>>
    /\ calls = 0
    /\ snapshot = buf
    /\ rerun = FALSE

Init ==
    \/ \E l \in ShortLines : Entered(l, <<whole(l)>>, VarPrefix)
    \/ \E l \in ValueLines, pre \in Prefixes : Entered(l, <<whole(l)>>, pre)
    \/ Entered(ExampleLine, <<whole(ExampleLine)>>, ExamplePrefix)
    \/ \E n \in 1..MaxLines : \E ls \in [1..n -> Vocabulary] :
            LET buf == join(<<"\n">>, ls)
            IN  \E selection \in Selections(buf) :
                    Entered(buf, selection, VarPrefix)

(***************************************************************************)
(* run (source lines 65-73).                                               *)
(***************************************************************************)
\* `if not region.empty()` fails: the region is passed over
run_skip_region ==
    /\ pc = "run"
    /\ sel # <<>>
    /\ empty(Head(sel))
    /\ sel' = Tail(sel)
    /\ UNCHANGED <<buffer, prefix, pc, lines, visited, counter, variables, text,
                   match, passes, edit, calls, snapshot, rerun>>

\* extract_variables is called: source lines 82-93
extract_variables_enter ==
    /\ pc = "run"
    /\ sel # <<>>
    /\ ~empty(Head(sel))
    /\ sel' = Tail(sel)
    /\ lines' = split_by_newlines(buffer, view_line(buffer, Head(sel)))
    /\ visited' = 0
    /\ counter' = initial_counter
    /\ variables' = <<>>
    /\ passes' = <<>>
    /\ calls' = calls + 1
    /\ snapshot' = buffer
    /\ pc' = "lines"
    /\ UNCHANGED <<buffer, prefix, text, match, edit, rerun>>

\* the loop of run is over
run_return ==
    /\ pc = "run"
    /\ sel = <<>>
    /\ pc' = "done"
    /\ UNCHANGED <<buffer, sel, prefix, lines, visited, counter, variables, text,
                   match, passes, edit, calls, snapshot, rerun>>

(***************************************************************************)
(* extract_variables (source lines 96-267).                                *)
(***************************************************************************)
\* the line region the loop visits next
line == visit_order(lines)[visited + 1]

\* which run of the command this is
run_number == IF rerun THEN 2 ELSE 1

\* one pass of the loop over a line the pattern does not match
line_no_match(m) ==
    /\ ~m.ok
    /\ match' = m
    /\ UNCHANGED <<buffer, sel, counter, variables, edit>>

\* one pass of the loop over a line the pattern matches
line_match(m) ==
    /\ m.ok
    /\ match' = m
    /\ \E c \in {next_counter(counter)} : \E repl \in {replacement(prefix, c, m)} :
           /\ counter' = c
           /\ variables' = Append(variables, variables_entry(prefix, c, m))
           /\ buffer' = replace(buffer, line, repl)
           /\ sel' = moved(sel, line.b, Len(repl) - (line.b - line.a))
           /\ edit' = Append(edit, [op |-> "replace", run |-> run_number, call |-> calls,
                                    region |-> line, string |-> repl])

\* one pass of the loop `for line in reversed(lines)`
visit_line ==
    /\ pc = "lines"
    /\ visited < Len(lines)
    /\ text' = substr(buffer, line)
    /\ visited' = visited + 1
    /\ \E m \in {re_search(substr(buffer, line))} :
           /\ passes' = Append(passes, [text |-> substr(buffer, line), match |-> m])
           /\ \/ line_no_match(m)
              \/ line_match(m)
    /\ UNCHANGED <<prefix, pc, lines, calls, snapshot, rerun>>

\* after the loop, `if variables:` holds: the declarations are inserted
insert_variables ==
    /\ pc = "lines"
    /\ visited = Len(lines)
    /\ variables # <<>>
    /\ buffer' = insert(buffer, insert_point, variables_output(variables))
    /\ sel' = moved(sel, insert_point, Len(variables_output(variables)))
    /\ edit' = Append(edit, [op |-> "insert", run |-> run_number, call |-> calls,
                             region |-> [a |-> insert_point, b |-> insert_point],
                             string |-> variables_output(variables)])
    /\ pc' = "run"
    /\ UNCHANGED <<prefix, lines, visited, counter, variables, text, match,
                   passes, calls, snapshot, rerun>>

\* after the loop, `if variables:` fails: nothing is inserted
insert_nothing ==
    /\ pc = "lines"
    /\ visited = Len(lines)
    /\ variables = <<>>
    /\ pc' = "run"
    /\ UNCHANGED <<buffer, sel, prefix, lines, visited, counter, variables, text,
                   match, passes, edit, calls, snapshot, rerun>>

(***************************************************************************)
(* The user runs the command once more, on what the first run has made of *)
(* the buffer: over the whole buffer, with the same prefix.                *)
(***************************************************************************)
run_again ==
    /\ pc = "done"
    /\ ~rerun
    /\ edit # <<>>
    /\ rerun' = TRUE
    /\ sel' = <<whole(buffer)>>
    /\ pc' = "run"
    /\ lines' = <<>>
    /\ visited' = 0
    /\ counter' = 0
    /\ variables' = <<>>
    /\ text' = <<>>
    /\ match' = None
    /\ passes' = <<>>
    /\ calls' = 0
    /\ snapshot' = buffer
    /\ UNCHANGED <<buffer, prefix, edit>>

Next ==
    \/ run_skip_region
    \/ extract_variables_enter
    \/ run_return
    \/ visit_line
    \/ insert_variables
    \/ insert_nothing
    \/ run_again

Spec == Init /\ [][Next]_vars

(***************************************************************************)
(* Properties of the command.                                              *)
(***************************************************************************)
\* the text the buffer now holds on the line that the loop visited last: the
\* line still starts where it did, as the loop has changed only this line
\* and lines after it
now ==
    LET a == visit_order(lines)[visited].a
    IN  substr(buffer, [a |-> a, b |-> LineEnd(buffer, a)])

\* the passes of the loop so far over lines that the pattern matched
matched == {j \in 1..Len(passes) : passes[j].match.ok}

\* the loop has just visited a line that matched, with a value without spaces
simple_visited ==
    pc = "lines" /\ visited > 0 /\ match.ok /\ ~Contains(match.css_value, " ")

compound_visited ==
    pc = "lines" /\ visited > 0 /\ match.ok /\ Contains(match.css_value, " ")

\* C2: after the pass over a matching line whose captured value has a space,
\* with the tokens of the value those between its spaces, less a last token
\* "!important": if that marker was there and one token remains, its name is
\* the base name prefix-lessvar<counter>-<property>; otherwise the k-th token
\* has the name <base name>-lessv<counter>sv<k>.  The pass has added the
\* declarations "<name>: <token>;", one per token in their order, and in the
\* line the names, with single spaces between them (and the marker after them
\* if it was there), have taken the place of the value.
C2_CompoundValueNamed ==
    compound_visited =>
        LET all == split(match.css_value, " ")
            marked == all[Len(all)] = important_text
            tokens == IF marked THEN SubSeq(all, 1, Len(all) - 1) ELSE all
            base == prefix \o <<"-", "l", "e", "s", "s", "v", "a", "r">> \o str(counter)
                           \o <<"-">> \o match.css_property
            name(k) == IF marked /\ Len(tokens) = 1 THEN base
                       ELSE base \o <<"-", "l", "e", "s", "s", "v">> \o str(counter)
                                 \o <<"s", "v">> \o str(k)
            before == match.space_before_property \o match.css_property
                        \o match.space_after_property \o <<":">>
                        \o match.space_before_value
            after == match.space_after_value \o <<";">> \o match.inline_comments
        IN  /\ variables # <<>>
            /\ variables[Len(variables)] =
                    join(<<"\n">>, [k \in 1..Len(tokens) |->
                                        name(k) \o <<":", " ">> \o tokens[k] \o <<";">>])
            /\ now =
                    before \o join(<<" ">>, [k \in 1..Len(tokens) |-> name(k)])
                           \o (IF marked THEN <<" ">> \o important_text ELSE <<>>)
                           \o after

\* text s ends with text t
EndsWith(s, t) == Len(t) <= Len(s) /\ SubSeq(s, Len(s) - Len(t) + 1, Len(s)) = t

\* at how many places text t occurs in text s
Occurrences(s, t) ==
    Cardinality({i \in 1..(Len(s) - Len(t) + 1) : SubSeq(s, i, i + Len(t) - 1) = t})

\* C3: after the pass over a matching line, none of the declarations the pass
\* has added declares the value "!important", and if the captured value ends
\* with "!important" then the line now holds "!important" exactly once: at
\* the end of what has taken the place of the value, after a single space.
C3_ImportantNeverDeclared ==
    (pc = "lines" /\ visited > 0 /\ match.ok) =>
        LET declarations == split(variables[Len(variables)], "\n")
            before == match.space_before_property \o match.css_property
                        \o match.space_after_property \o <<":">>
                        \o match.space_before_value
            after == match.space_after_value \o <<";">> \o match.inline_comments
            span == SubSeq(now, Len(before) + 1, Len(now) - Len(after))
        IN  /\ \A k \in 1..Len(declarations) :
                    ~EndsWith(declarations[k], <<":", " ">> \o important_text \o <<";">>)
            /\ EndsWith(match.css_value, important_text) =>
                    /\ Occurrences(now, important_text) = 1
                    /\ EndsWith(span, <<" ">> \o important_text)

\* extract_variables has just inserted the declarations of its region
inserted ==
    /\ pc = "run"
    /\ edit # <<>>
    /\ edit[Len(edit)].op = "insert"
    /\ edit[Len(edit)].run = run_number
    /\ edit[Len(edit)].call = calls

\* the counter of the line that pass j visited, if the counters run 1, 2, ...
\* over the matching lines of the region from its last line up: the number
\* of matching lines visited that are not above the line
rank(j) ==
    Cardinality({i \in matched : visit_order(lines)[i].a >= visit_order(lines)[j].a})

\* the declaration(s) of the line that pass j visited
declared(j) == variables_entry(prefix, rank(j), passes[j].match)

\* the pass that visited the k-th matching line of the region, counted from
\* the top of the region
from_top(k) ==
    CHOOSE j \in matched :
        Cardinality({i \in matched :
                        visit_order(lines)[i].a <= visit_order(lines)[j].a}) = k

\* C4: the block that extract_variables inserts lists the declarations of the
\* matching lines of the region in the order of the lines from the top of
\* the region to its bottom, one line's declarations after the other's.
C4_DeclarationsTopToBottom ==
    inserted =>
        edit[Len(edit)].string =
            join(<<"\n">>, [k \in 1..Cardinality(matched) |-> declared(from_top(k))])
                \o <<"\n", "\n">>

\* a block has been inserted for a region with two matching lines
C4_Witness ==
    /\ inserted
    /\ Cardinality(matched) >= 2
    /\ declared(from_top(1)) # declared(from_top(2))

\* the lines of a text
Lines(buf) == split(buf, "\n")

\* how many newlines a text holds
newlines(s) == Cardinality({i \in 1..Len(s) : s[i] = "\n"})

\* which line of the buffer, counted from 1, pass j of the loop visited
line_number(j) == newlines(SubSeq(snapshot, 1, visit_order(lines)[j].a)) + 1

\* by how many lines the declarations inserted by the current call of
\* extract_variables, if any, have moved the lines of the buffer down
lines_inserted ==
    IF /\ edit # <<>>
       /\ edit[Len(edit)].op = "insert"
       /\ edit[Len(edit)].run = run_number
       /\ edit[Len(edit)].call = calls
    THEN newlines(edit[Len(edit)].string)
    ELSE 0

\* C5: a line that the pattern does not match stays as it was when
\* extract_variables was called, at the same place among the lines of the
\* buffer (below the lines of declarations that the call has inserted, if
\* any), whatever the lines around it; and it adds no declaration: there are
\* as many entries of declarations as lines that matched.
C5_NonMatchingLineKept ==
    /\ Len(Lines(buffer)) = Len(Lines(snapshot)) + lines_inserted
    /\ \A j \in (1..Len(passes)) \ matched :
            /\ passes[j].text = Lines(snapshot)[line_number(j)]
            /\ Lines(buffer)[line_number(j) + lines_inserted] = passes[j].text
    /\ Len(variables) = Cardinality(matched)

\* declarations have been inserted for a region with a line that matched
\* and, above it, a line that did not
C5_Witness ==
    /\ lines_inserted > 0
    /\ \E i \in matched : \E j \in (1..Len(passes)) \ matched : i < j

\* the first run of the command wrote the text t as the new text of a line
rewritten_before(t) ==
    \E k \in 1..Len(edit) :
        edit[k].op = "replace" /\ edit[k].run = 1 /\ edit[k].string = t

\* C6: when the command is run again with a prefix that starts with "@", a
\* line that its first run rewrote is not matched by the pattern: the pass
\* over it leaves the line as it is and adds no declaration.
C6_RewrittenLineNotMatchedAgain ==
    (rerun /\ pc = "lines" /\ visited > 0 /\ prefix[1] = "@" /\ rewritten_before(text)) =>
        /\ ~match.ok
        /\ now = text
        /\ Len(variables) = Cardinality(matched \ {visited})

\* C7: while extract_variables runs over a region, the counter is the number
\* of lines of the region that have matched so far, and the matching lines
\* visited carry, in the buffer and in their declarations, the counters
\* 1, 2, ... in the order in which they were visited (the last line of the
\* region first): lines that do not match take no counter, and neither do
\* the lines of a region of an earlier call.
C7_CountersPerRegion ==
    pc = "lines" =>
        /\ counter = Cardinality(matched)
        /\ Len(variables) = counter
        /\ Len(Lines(buffer)) = Len(Lines(snapshot))
        /\ \A j \in matched :
                /\ Lines(buffer)[line_number(j)] = replacement(prefix, rank(j), passes[j].match)
                /\ variables[rank(j)] = variables_entry(prefix, rank(j), passes[j].match)

\* the second region of a run has had its first matching line, after the
\* first region had one
C7_Witness ==
    /\ pc = "lines"
    /\ calls = 2
    /\ counter = 1
    /\ \E k \in 1..Len(edit) : edit[k].op = "replace" /\ edit[k].call = 1

\* the changes that the current call of extract_variables has made
changes ==
    SelectSeq(edit, LAMBDA e : e.run = run_number /\ e.call = calls)

\* C8, as a property of every step.  A step that passes over an empty region
\* changes neither the buffer nor the record of changes and calls nothing.
\* A pass of the loop makes no insertion.  The step by which extract_variables
\* returns makes, if a line of the region matched, one insertion, at point 0
\* of the buffer, of the declarations with single newlines between them and
\* two newlines after them, all the changes of the call before it being
\* replacements of lines; and if no line matched it changes nothing, the call
\* having made no change to the buffer at all.
C8_Step ==
    /\ (pc = "run" /\ sel # <<>> /\ empty(Head(sel))) =>
            buffer' = buffer /\ edit' = edit /\ calls' = calls /\ pc' = "run"
    /\ (pc = "lines" /\ pc' = "lines") =>
            \A k \in 1..Len(edit') : k > Len(edit) => edit'[k].op = "replace"
    /\ (pc = "lines" /\ pc' = "run") =>
            IF matched # {}
            THEN LET block == join(<<"\n">>, [k \in 1..Len(variables) |->
                                                variables[Len(variables) + 1 - k]])
                                \o <<"\n", "\n">>
                 IN  /\ visited = Len(lines)
                     /\ buffer' = block \o buffer
                     /\ Len(edit') = Len(edit) + 1
                     /\ SubSeq(edit', 1, Len(edit)) = edit
                     /\ edit'[Len(edit')].op = "insert"
                     /\ edit'[Len(edit')].region = [a |-> 0, b |-> 0]
                     /\ edit'[Len(edit')].string = block
                     /\ Len(changes) = Cardinality(matched)
                     /\ \A k \in 1..Len(changes) : changes[k].op = "replace"
            ELSE /\ visited = Len(lines)
                 /\ buffer' = buffer
                 /\ edit' = edit
                 /\ buffer = snapshot
                 /\ changes = <<>>

C9_OffsetsStayValid ==
    pc = "lines" =>
        /\ \A j \in 1..Len(passes) :
                passes[j].text = substr(snapshot, visit_order(lines)[j])
        /\ \A j \in (visited + 1)..Len(lines) :
                substr(buffer, visit_order(lines)[j]) = substr(snapshot, visit_order(lines)[j])
        /\ \A k \in 1..Len(changes) : changes[k].op = "replace"

\* a line has been replaced by a longer text while a line above it is still
\* to be visited
C9_Witness ==
    /\ pc = "lines"
    /\ 0 < visited
    /\ visited < Len(lines)
    /\ match.ok
    /\ Len(buffer) > Len(snapshot)

\* the whitespace at the end of a text
trailing(s) ==
    SubSeq(s, Max({i \in 1..Len(s) : s[i] \notin WhiteSpace} \cup {0}) + 1, Len(s))

\* the loop has just visited a declaration of several values, none of them
\* empty or "!important": between the colon and the semicolon, apart from
\* whitespace around them, there are tokens with single spaces between them
several_values_visited ==
    /\ pc = "lines" /\ visited > 0 /\ match.ok
    /\ LET tokens == split(strip(match.css_value), " ")
       IN  /\ Len(tokens) >= 2
           /\ \A k \in 1..Len(tokens) : tokens[k] # <<>> /\ tokens[k] # important_text

\* C10: after the pass over such a declaration, whatever whitespace it has
\* before the colon and before the semicolon, there is one variable for each
\* token of the value, the k-th named
\* prefix-lessvar<counter>-<property>-lessv<counter>sv<k> with the property
\* taken without the whitespace around it; each is declared with its token,
\* and in the line the names, with single spaces between them, have taken the
\* place of the tokens, the whitespace before the colon and before the
\* semicolon, and all the rest of the line, being left as it was.
C10_WhitespaceHonoured ==
    several_values_visited =>
        LET tokens == split(strip(match.css_value), " ")
            name(k) == prefix \o <<"-", "l", "e", "s", "s", "v", "a", "r">> \o str(counter)
                              \o <<"-">> \o strip(match.css_property)
                              \o <<"-", "l", "e", "s", "s", "v">> \o str(counter)
                              \o <<"s", "v">> \o str(k)
        IN  /\ variables[Len(variables)] =
                    join(<<"\n">>, [k \in 1..Len(tokens) |->
                                        name(k) \o <<":", " ">> \o tokens[k] \o <<";">>])
            /\ now = match.space_before_property \o match.css_property
                        \o match.space_after_property \o <<":">>
                        \o match.space_before_value
                        \o join(<<" ">>, [k \in 1..Len(tokens) |-> name(k)])
                        \o trailing(match.css_value) \o match.space_after_value
                        \o <<";">> \o match.inline_comments

\* the name that a declaration "name: value;" declares: no declared value
\* holds a space, so the last space of the declaration is the one after the
\* colon that ends the name
declared_name(d) == SubSeq(d, 1, Max({i \in 1..Len(d) : d[i] = " "}) - 2)

\* the declarations emitted in the current run of the command, in the order
\* of their insertion: the lines, other than empty ones, of the blocks that
\* the run has inserted
emitted ==
    LET blocks == SelectSeq(edit, LAMBDA e : e.op = "insert" /\ e.run = run_number)
        all == Flatten([k \in 1..Len(blocks) |-> Lines(blocks[k].string)])
    IN  SelectSeq(all, LAMBDA d : d # <<>>)

\* C11: over one run of the command, whatever the regions of the selection,
\* no two of the declarations emitted declare the same variable name.
C11_NamesUnique ==
    \A i \in 1..Len(emitted) : \A j \in 1..Len(emitted) :
        i < j => declared_name(emitted[i]) # declared_name(emitted[j])

====
